---------------------------- MODULE Spec2Model ----------------------------
(***************************************************************************)
(* A model of github.com/agschwender/autoreload: the AutoReloader built by *)
(* New, the watch-loop goroutine launched by Start, Stop, and the          *)
(* autoreloader launcher command wrapped around a child process.           *)
(*                                                                         *)
(* Time is counted in ticks; one 250ms time.After timer lasts SleepTicks.  *)
(* A Go select with several ready cases takes any one of them.             *)
(***************************************************************************)
EXTENDS Integers, Sequences, FiniteSets, TLC

\* ------------------------------------------------------------- bounds
MaxOpts == 2          \* WithMaxAttempts options handed to New
MaxChanges == 3       \* notifications the Change Source produces
MaxWatchErrors == 1   \* errors the Change Source produces
MaxStops == 2         \* calls of Stop
SleepTicks == 2       \* ticks of one 250ms timer

\* Arguments tried for WithMaxAttempts.
OptValues == {-1, 0, 1, 2, 3}

\* Results of syscall.Exec: it replaced the process, or returned an errno.
ExecOutcomes == {"ok", "ETXTBSY", "EACCES"}

\* Values received from watcher.Errors (the watcher is never closed, so a
\* receive never yields nil).
NoError == "nil"
ErrorStreamValues == {"EIO"}

\* Results of the start-up steps of Start.
StartOutcomes == {"ok", "lookPathFailed", "watcherFailed"}

\* Exit codes of a child that ends by itself.
ChildCodes == {0, 3}

\* exec.ExitError.ExitCode() of a child ended by a signal.
SignalledCode == 0 - 1

\* ------------------------------------------------------------- program constants
defaultMaxAttempts == 10

VARIABLES
    opts,          \* arguments of the WithMaxAttempts options given to New, in order
    maxAttempts,   \* ar.maxAttempts
    cancelled,     \* ar.ctx is done (ar.cancel was called)
    pc,            \* the watch loop: "new" (Start not called), "select", "sleep",
                   \* "hook" (ar.onReload in flight), "exec", "cancelled" (returned)
    i,             \* the for loop's counter
    timer,         \* ticks left on the time.After timer of the sleep in progress
    events,        \* notifications waiting in watcher.Events
    errors,        \* errors waiting in watcher.Errors
    proc,          \* host process: "running", "replaced", "exited"
    exitStatus,    \* <<>> while the process has not exited, <<code>> after
    infoLog,       \* calls of logger.Info
    errorLog,      \* calls of logger.Error
    lastError,     \* the error passed to the last logger.Error call
    hookCalls,     \* invocations of ar.onReload
    execCalls,     \* calls of syscall.Exec
    lastOutcome,   \* result of the last syscall.Exec call
    cycles,        \* receives from watcher.Events taken by the outer select
    swallowed,     \* receives from watcher.Events taken inside sleep
    changes,       \* notifications produced so far
    watchErrs,     \* watch errors produced so far
    errsReceived,  \* receives from watcher.Errors
    stopCalls,     \* calls of Stop
    stoppedEarly,  \* Stop was called before any notification was produced
    stopAfterExit, \* Stop was called after the watch loop had returned
    mainpc,        \* the launcher's main: "none" (not a launcher), "cmdWait",
                   \* "wgWait", "exitCheck", "done"
    child,         \* the launcher's child: "none", "running", "signalled" (kill
                   \* sent), "exited" (not yet waited for), "reaped"
    childStatus,   \* <<>> while the child runs, <<ExitCode()>> once it ended
    waitErr,       \* what cmd.Wait returned: <<>> before, <<ExitCode()>> after
    wg,            \* the launcher's sync.WaitGroup counter
    hookpc,        \* the launcher's hook: "none" (not a launcher), "kill",
                   \* "add", "returned"
    slept,         \* ticks since the sleep in progress began (up to SleepTicks)
    quiet,         \* ticks since the loop last received a notification (up to
                   \* SleepTicks; 0 before the first receive; not counted on
                   \* once the hook has been called)
    gap,           \* ticks since the last notification was produced (up to
                   \* SleepTicks + 1; 0 before the first; not counted on once
                   \* separated is false or no further one will be produced)
    separated,     \* every notification so far came more than SleepTicks after
                   \* the one before it
    watching,      \* the fsnotify watcher is open and watches the path
    sleeps,        \* returns of sleep
    stopPhase      \* where the loop was when the context was cancelled: "none"
                   \* (not cancelled), "idle" (no notification received),
                   \* "window" (one received, hook not yet called), "reloading"

config == <<opts, maxAttempts>>
loop == <<pc, i, timer>>
streams == <<events, errors>>
host == <<proc, exitStatus>>
reporter == <<infoLog, errorLog, lastError>>
calls == <<hookCalls, execCalls, lastOutcome>>
history == <<cycles, swallowed, changes, watchErrs, errsReceived>>
stops == <<stopCalls, stoppedEarly, stopAfterExit>>
launcher == <<mainpc, child, childStatus, waitErr, wg, hookpc>>
clocks == <<slept, quiet, gap, separated>>
session == <<watching, sleeps, stopPhase>>

vars == <<config, cancelled, loop, streams, host, reporter, calls, history,
          stops, launcher, clocks, session>>

\* ------------------------------------------------------------- construction

\* Variant of WithMaxAttempts: the argument is stored as given, with no
\* lower limit.
WithMaxAttempts_NoClamp(m) == m

\* WithMaxAttempts(m): the value the returned option stores.
WithMaxAttempts(m) == IF m < 1 THEN 1 ELSE m

RECURSIVE ApplyOpts(_, _)
\* The loop of New over opts: each option overwrites the field in turn.
ApplyOpts(cur, os) ==
    IF os = <<>> THEN cur
    ELSE ApplyOpts(WithMaxAttempts(Head(os)), Tail(os))

\* New(opts...): ar.maxAttempts of the AutoReloader it returns.
New(os) == ApplyOpts(defaultMaxAttempts, os)

OptSeqs == UNION {[1..n -> OptValues] : n \in 0..MaxOpts}

\* The AutoReloader that New(opts...) returns, and nothing started yet.
Constructed ==
    /\ maxAttempts = New(opts)
    /\ cancelled = FALSE
    /\ pc = "new"
    /\ i = 0
    /\ timer = 0
    /\ events = 0
    /\ errors = 0
    /\ proc = "running"
    /\ exitStatus = <<>>
    /\ infoLog = 0
    /\ errorLog = 0
    /\ lastError = NoError
    /\ hookCalls = 0
    /\ execCalls = 0
    /\ lastOutcome = "none"
    /\ cycles = 0
    /\ swallowed = 0
    /\ changes = 0
    /\ watchErrs = 0
    /\ errsReceived = 0
    /\ stopCalls = 0
    /\ stoppedEarly = FALSE
    /\ stopAfterExit = FALSE
    /\ mainpc = "none"
    /\ child = "none"
    /\ childStatus = <<>>
    /\ waitErr = <<>>
    /\ wg = 0
    /\ hookpc = "none"
    /\ slept = 0
    /\ quiet = 0
    /\ gap = 0
    /\ separated = TRUE
    /\ watching = FALSE
    /\ sleeps = 0
    /\ stopPhase = "none"

\* A supervisor built with no option or with one WithMaxAttempts option.
Init ==
    /\ opts \in {os \in OptSeqs : Len(os) <= 1}
    /\ Constructed

\* A supervisor built with any of the option lists.
ConfigInit ==
    /\ opts \in OptSeqs
    /\ Constructed

\* ------------------------------------------------------------- helpers

\* Variant of fatal: the error is logged and the caller goes on (a Logger
\* whose Error method is trusted to end the process, and does not).
fatal_NoExit(err) ==
    /\ errorLog' = errorLog + 1
    /\ lastError' = err
    /\ UNCHANGED host

\* fatal(logger, msg, err): one logger.Error call, then os.Exit(1).
fatal(err) ==
    /\ errorLog' = errorLog + 1
    /\ lastError' = err
    /\ proc' = "exited"
    /\ exitStatus' = <<1>>

\* Variant of must: the error is dropped and the caller goes on.
must_Ignore(err) == UNCHANGED <<host, errorLog, lastError>>

\* must(logger, err, msg): fatal when err is not nil, nothing otherwise.
must(err) ==
    IF err # NoError THEN fatal(err)
    ELSE UNCHANGED <<host, errorLog, lastError>>

\* Variant of forLoop: the test is n <= maxAttempts.
forLoop_OffByOne(n) ==
    /\ i' = n
    /\ IF n <= maxAttempts
       THEN /\ pc' = "sleep"
            /\ timer' = SleepTicks
            /\ slept' = 0
            /\ UNCHANGED <<host, errorLog, lastError>>
       ELSE /\ fatal("max attempts reached")
            /\ UNCHANGED <<pc, timer, slept>>

\* Variant of forLoop: only the first iteration sleeps, a retry calls tryExec
\* right away.
forLoop_NoDelayOnRetry(n) ==
    /\ i' = n
    /\ IF n < maxAttempts
       THEN /\ pc' = IF n = 0 THEN "sleep" ELSE "exec"
            /\ timer' = IF n = 0 THEN SleepTicks ELSE timer
            /\ slept' = IF n = 0 THEN 0 ELSE slept
            /\ UNCHANGED <<host, errorLog, lastError>>
       ELSE /\ fatal("max attempts reached")
            /\ UNCHANGED <<pc, timer, slept>>

\* Variant of forLoop: when the attempts are used up the loop goes back to the
\* outer select, with no fatal call.
forLoop_NoFatal(n) ==
    /\ i' = n
    /\ IF n < maxAttempts
       THEN /\ pc' = "sleep"
            /\ timer' = SleepTicks
            /\ slept' = 0
            /\ UNCHANGED <<host, errorLog, lastError>>
       ELSE /\ pc' = "select"
            /\ UNCHANGED <<timer, slept, host, errorLog, lastError>>

\* The test of the for loop with counter n: another iteration starts with
\* sleep(250ms), or the loop ends and the fatal call after it runs.
forLoop(n) ==
    /\ i' = n
    /\ IF n < maxAttempts
       THEN /\ pc' = "sleep"
            /\ timer' = SleepTicks
            /\ slept' = 0
            /\ UNCHANGED <<host, errorLog, lastError>>
       ELSE /\ fatal("max attempts reached")
            /\ UNCHANGED <<pc, timer, slept>>

\* ------------------------------------------------------------- Start and Stop

\* Start: looks up the two paths and sets up the watcher (each failure is
\* fatal), then launches the watch loop and returns.
Start ==
    /\ proc = "running"
    /\ pc = "new"
    /\ \E outcome \in StartOutcomes :
          IF outcome = "ok"
          THEN /\ pc' = "select"
               /\ watching' = TRUE
               /\ UNCHANGED <<host, errorLog, lastError>>
          ELSE /\ fatal(outcome)
               /\ UNCHANGED <<pc, watching>>
    /\ UNCHANGED <<config, cancelled, i, timer, streams, infoLog, calls,
                   history, stops, launcher, clocks, sleeps, stopPhase>>

\* Variant of Stop: cancellation by closing a channel, which panics when the
\* channel is closed already.
Stop_CloseChannel ==
    /\ proc = "running"
    /\ stopCalls < MaxStops
    /\ cancelled' = TRUE
    /\ stopCalls' = stopCalls + 1
    /\ stoppedEarly' = (stoppedEarly \/ (~cancelled /\ changes = 0))
    /\ stopAfterExit' = (stopAfterExit \/ pc = "cancelled")
    /\ stopPhase' = IF cancelled THEN stopPhase
                    ELSE IF cycles = 0 THEN "idle"
                    ELSE IF hookCalls = 0 THEN "window"
                    ELSE "reloading"
    /\ IF cancelled
       THEN /\ proc' = "exited"
            /\ exitStatus' = <<2>>
       ELSE UNCHANGED host
    /\ UNCHANGED <<config, loop, streams, reporter, calls, history, launcher,
                   clocks, watching, sleeps>>

\* Stop: ar.cancel(); cancelling a cancelled context does nothing.
Stop ==
    /\ proc = "running"
    /\ stopCalls < MaxStops
    /\ cancelled' = TRUE
    /\ stopCalls' = stopCalls + 1
    /\ stoppedEarly' = (stoppedEarly \/ (~cancelled /\ changes = 0))
    /\ stopAfterExit' = (stopAfterExit \/ pc = "cancelled")
    /\ stopPhase' = IF cancelled THEN stopPhase
                    ELSE IF cycles = 0 THEN "idle"
                    ELSE IF hookCalls = 0 THEN "window"
                    ELSE "reloading"
    /\ UNCHANGED <<config, loop, streams, host, reporter, calls, history,
                   launcher, clocks, watching, sleeps>>

\* ------------------------------------------------------------- the watch loop

\* Variant of SelectEvent: the Info call is left out.
SelectEvent_NoLog ==
    /\ proc = "running"
    /\ pc = "select"
    /\ events > 0
    /\ events' = events - 1
    /\ cycles' = cycles + 1
    /\ quiet' = 0
    /\ forLoop(0)
    /\ UNCHANGED <<config, cancelled, errors, infoLog, calls, swallowed,
                   changes, watchErrs, errsReceived, stops, launcher, gap,
                   separated, session>>

\* case <-watcher.Events: logs, then enters the for loop.
SelectEvent ==
    /\ proc = "running"
    /\ pc = "select"
    /\ events > 0
    /\ events' = events - 1
    /\ cycles' = cycles + 1
    /\ infoLog' = infoLog + 1
    /\ quiet' = 0
    /\ forLoop(0)
    /\ UNCHANGED <<config, cancelled, errors, calls, swallowed, changes,
                   watchErrs, errsReceived, stops, launcher, gap, separated,
                   session>>

\* case err := <-watcher.Errors: must(err); the loop goes on if must returns.
SelectError ==
    /\ proc = "running"
    /\ pc = "select"
    /\ errors > 0
    /\ errors' = errors - 1
    /\ errsReceived' = errsReceived + 1
    /\ \E err \in ErrorStreamValues : must(err)
    /\ UNCHANGED <<config, cancelled, loop, events, infoLog, calls, cycles,
                   swallowed, changes, watchErrs, stops, launcher, clocks,
                   session>>

\* Variant of SelectDone: the Done case leaves only the select statement (a
\* break), and the for loop comes round to the select again.
SelectDone_BreakSelect ==
    /\ proc = "running"
    /\ pc = "select"
    /\ cancelled
    /\ UNCHANGED vars

\* case <-ar.ctx.Done(): return.
SelectDone ==
    /\ proc = "running"
    /\ pc = "select"
    /\ cancelled
    /\ pc' = "cancelled"
    /\ UNCHANGED <<config, cancelled, i, timer, streams, host, reporter,
                   calls, history, stops, launcher, clocks, session>>

\* Variant of SleepSwallow: a notification received in sleep starts the
\* timer again (a debounce).
SleepSwallow_RestartTimer ==
    /\ proc = "running"
    /\ pc = "sleep"
    /\ events > 0
    /\ events' = events - 1
    /\ swallowed' = swallowed + 1
    /\ quiet' = IF hookCalls = 0 THEN 0 ELSE quiet
    /\ timer' = SleepTicks
    /\ slept' = 0
    /\ UNCHANGED <<config, cancelled, pc, i, errors, host, reporter, calls,
                   cycles, changes, watchErrs, errsReceived, stops, launcher,
                   gap, separated, session>>

\* Variant of SleepSwallow: a notification received in sleep starts the
\* attempts again from zero.
SleepSwallow_NewCycle ==
    /\ proc = "running"
    /\ pc = "sleep"
    /\ events > 0
    /\ events' = events - 1
    /\ swallowed' = swallowed + 1
    /\ quiet' = IF hookCalls = 0 THEN 0 ELSE quiet
    /\ i' = 0
    /\ UNCHANGED <<config, cancelled, pc, timer, errors, host, reporter, calls,
                   cycles, changes, watchErrs, errsReceived, stops, launcher,
                   slept, gap, separated, session>>

\* sleep, case <-events: the notification is dropped and the wait goes on
\* with the same timer.
SleepSwallow ==
    /\ proc = "running"
    /\ pc = "sleep"
    /\ events > 0
    /\ events' = events - 1
    /\ swallowed' = swallowed + 1
    /\ quiet' = IF hookCalls = 0 THEN 0 ELSE quiet
    /\ UNCHANGED <<config, cancelled, loop, errors, host, reporter, calls,
                   cycles, changes, watchErrs, errsReceived, stops, launcher,
                   slept, gap, separated, session>>

\* Variant of afterSleep: the hook is called on every attempt.
afterSleep_HookEveryAttempt(n) ==
    /\ hookCalls' = hookCalls + 1
    /\ pc' = "hook"

\* Variant of afterSleep: the context is tested after each sleep and the loop
\* returns when it is cancelled.
afterSleep_CheckCtx(n) ==
    IF cancelled
    THEN /\ pc' = "cancelled"
         /\ UNCHANGED hookCalls
    ELSE IF n = 0
    THEN /\ hookCalls' = hookCalls + 1
         /\ pc' = "hook"
    ELSE /\ pc' = "exec"
         /\ UNCHANGED hookCalls

\* After sleep returns: the hook is called when n = 0, and then tryExec.
afterSleep(n) ==
    IF n = 0
    THEN /\ hookCalls' = hookCalls + 1
         /\ pc' = "hook"
    ELSE /\ pc' = "exec"
         /\ UNCHANGED hookCalls

\* sleep, case <-timer: sleep returns, the loop body goes on.
SleepTimer ==
    /\ proc = "running"
    /\ pc = "sleep"
    /\ timer = 0
    /\ sleeps' = sleeps + 1
    /\ afterSleep(i)
    /\ UNCHANGED <<config, cancelled, i, timer, streams, host, reporter,
                   execCalls, lastOutcome, history, stops, launcher, clocks,
                   watching, stopPhase>>

\* ar.onReload() returns (the hook of a library user).
HookReturn ==
    /\ proc = "running"
    /\ pc = "hook"
    /\ pc' = "exec"
    /\ UNCHANGED <<config, cancelled, i, timer, streams, host, reporter,
                   calls, history, stops, launcher, clocks, session>>

\* Variant of execResult: ETXTBSY is not told apart, every error is fatal.
execResult_BusyFatal(outcome) ==
    CASE outcome = "ok" ->
           /\ proc' = "replaced"
           /\ UNCHANGED <<loop, slept, exitStatus, errorLog, lastError>>
      [] OTHER ->
           /\ fatal(outcome)
           /\ UNCHANGED <<loop, slept>>

\* Variant of execResult: every error is taken as transient.
execResult_AllTransient(outcome) ==
    CASE outcome = "ok" ->
           /\ proc' = "replaced"
           /\ UNCHANGED <<loop, slept, exitStatus, errorLog, lastError>>
      [] OTHER ->
           forLoop(i + 1)

\* Variant of execResult: after ETXTBSY the loop goes back to waiting for
\* the next notification instead of retrying.
execResult_BackToSelect(outcome) ==
    CASE outcome = "ok" ->
           /\ proc' = "replaced"
           /\ UNCHANGED <<loop, slept, exitStatus, errorLog, lastError>>
      [] outcome = "ETXTBSY" ->
           /\ pc' = "select"
           /\ UNCHANGED <<i, timer, slept, host, errorLog, lastError>>
      [] OTHER ->
           /\ fatal(outcome)
           /\ UNCHANGED <<loop, slept>>

\* What tryExec does with the result of syscall.Exec: no return on success,
\* return on ETXTBSY (the for loop goes on), fatal on any other error.
execResult(outcome) ==
    CASE outcome = "ok" ->
           /\ proc' = "replaced"
           /\ UNCHANGED <<loop, slept, exitStatus, errorLog, lastError>>
      [] outcome = "ETXTBSY" ->
           forLoop(i + 1)
      [] OTHER ->
           /\ fatal(outcome)
           /\ UNCHANGED <<loop, slept>>

\* tryExec(ar.logger, execPath, os.Args, os.Environ())
TryExec ==
    /\ proc = "running"
    /\ pc = "exec"
    /\ \E outcome \in ExecOutcomes :
          /\ execCalls' = execCalls + 1
          /\ lastOutcome' = outcome
          /\ execResult(outcome)
    /\ UNCHANGED <<config, cancelled, streams, infoLog, hookCalls, history,
                   stops, launcher, quiet, gap, separated, session>>

\* ------------------------------------------------------------- environment

\* The watched file changes: fsnotify offers a notification on Events.
FileChange ==
    /\ proc = "running"
    /\ pc # "new"
    /\ changes < MaxChanges
    /\ changes' = changes + 1
    /\ events' = events + 1
    /\ separated' = (separated /\ (changes = 0 \/ gap > SleepTicks))
    /\ gap' = 0
    /\ UNCHANGED <<config, cancelled, loop, errors, host, reporter, calls,
                   cycles, swallowed, watchErrs, errsReceived, stops, launcher,
                   slept, quiet, session>>

\* The watch fails: fsnotify offers an error on Errors.
WatchError ==
    /\ proc = "running"
    /\ pc # "new"
    /\ watchErrs < MaxWatchErrors
    /\ watchErrs' = watchErrs + 1
    /\ errors' = errors + 1
    /\ UNCHANGED <<config, cancelled, loop, events, host, reporter, calls,
                   cycles, swallowed, changes, errsReceived, stops, launcher,
                   clocks, session>>

\* Time passes: the running timer gets one tick closer to firing, and the
\* clocks that have not reached their limit advance.
Tick ==
    /\ proc = "running"
    /\ pc # "new"
    /\ timer' = IF pc = "sleep" /\ timer > 0 THEN timer - 1 ELSE timer
    /\ slept' = IF pc = "sleep" /\ slept < SleepTicks THEN slept + 1 ELSE slept
    /\ quiet' = IF cycles > 0 /\ hookCalls = 0 /\ quiet < SleepTicks
                THEN quiet + 1 ELSE quiet
    /\ gap' = IF /\ changes > 0
                 /\ changes < MaxChanges
                 /\ separated
                 /\ gap <= SleepTicks
              THEN gap + 1 ELSE gap
    /\ <<timer', slept', quiet', gap'>> # <<timer, slept, quiet, gap>>
    /\ UNCHANGED <<config, cancelled, pc, i, streams, host, reporter, calls,
                   history, stops, launcher, separated, session>>

Next ==
    \/ Start
    \/ Stop
    \/ SelectEvent
    \/ SelectError
    \/ SelectDone
    \/ SleepSwallow
    \/ SleepTimer
    \/ HookReturn
    \/ TryExec
    \/ FileChange
    \/ WatchError
    \/ Tick

Spec == Init /\ [][Next]_vars

\* The watch loop is scheduled, its timers fire and the hook returns.
FairSpec ==
    /\ Spec
    /\ WF_vars(Tick)
    /\ WF_vars(SleepTimer)
    /\ WF_vars(HookReturn)
    /\ WF_vars(TryExec)

\* As FairSpec, and the goroutine of the watch loop blocked in the outer
\* select takes one of its ready cases.
LoopFairSpec ==
    /\ FairSpec
    /\ WF_vars(SelectEvent \/ SelectError \/ SelectDone)

\* One reload cycle of a supervisor under each configuration: it is started,
\* the file changes, and the cycle runs; no Stop and no watch error.
ConfigNext ==
    \/ Start
    \/ SelectEvent
    \/ SleepSwallow
    \/ SleepTimer
    \/ HookReturn
    \/ TryExec
    \/ FileChange
    \/ Tick

ConfigSpec == ConfigInit /\ [][ConfigNext]_vars

TypeOK ==
    /\ maxAttempts \in 1..defaultMaxAttempts
    /\ pc \in {"new", "select", "sleep", "hook", "exec", "cancelled"}
    /\ proc \in {"running", "replaced", "exited"}
    /\ i \in 0..maxAttempts
    /\ timer \in 0..SleepTicks
    /\ events \in 0..MaxChanges
    /\ errors \in 0..MaxWatchErrors

\* ------------------------------------------------------------- the launcher

\* The autoreloader command after cmd.Start() and autoreload.New(WithCommand,
\* WithOnReload): the child runs, no WithMaxAttempts option was given, and
\* main is about to call Start and then cmd.Wait.
LauncherInit ==
    /\ opts = <<>>
    /\ maxAttempts = New(opts)
    /\ cancelled = FALSE
    /\ pc = "new"
    /\ i = 0
    /\ timer = 0
    /\ events = 0
    /\ errors = 0
    /\ proc = "running"
    /\ exitStatus = <<>>
    /\ infoLog = 0
    /\ errorLog = 0
    /\ lastError = NoError
    /\ hookCalls = 0
    /\ execCalls = 0
    /\ lastOutcome = "none"
    /\ cycles = 0
    /\ swallowed = 0
    /\ changes = 0
    /\ watchErrs = 0
    /\ errsReceived = 0
    /\ stopCalls = 0
    /\ stoppedEarly = FALSE
    /\ stopAfterExit = FALSE
    /\ mainpc = "cmdWait"
    /\ child = "running"
    /\ childStatus = <<>>
    /\ waitErr = <<>>
    /\ wg = 0
    /\ hookpc = "kill"
    /\ slept = 0
    /\ quiet = 0
    /\ gap = 0
    /\ separated = TRUE
    /\ watching = FALSE
    /\ sleeps = 0
    /\ stopPhase = "none"

\* The child command ends by itself.
ChildExit ==
    /\ proc = "running"
    /\ child = "running"
    /\ \E code \in ChildCodes : childStatus' = <<code>>
    /\ child' = "exited"
    /\ UNCHANGED <<config, cancelled, loop, streams, host, reporter, calls,
                   history, stops, mainpc, waitErr, wg, hookpc,
                   clocks, session>>

\* The kill signal sent by the hook ends the child.
ChildKilled ==
    /\ proc = "running"
    /\ child = "signalled"
    /\ child' = "exited"
    /\ childStatus' = <<SignalledCode>>
    /\ UNCHANGED <<config, cancelled, loop, streams, host, reporter, calls,
                   history, stops, mainpc, waitErr, wg, hookpc,
                   clocks, session>>

\* The hook, first half: cmd.Process.Kill(); log.Fatalf when it fails, which
\* it does once the child has been waited for.
HookKill ==
    /\ proc = "running"
    /\ pc = "hook"
    /\ hookpc = "kill"
    /\ IF child = "reaped"
       THEN /\ proc' = "exited"
            /\ exitStatus' = <<1>>
            /\ UNCHANGED <<child, hookpc>>
       ELSE /\ child' = IF child = "running" THEN "signalled" ELSE child
            /\ hookpc' = "add"
            /\ UNCHANGED host
    /\ UNCHANGED <<config, cancelled, loop, streams, reporter, calls, history,
                   stops, mainpc, childStatus, waitErr, wg,
                   clocks, session>>

\* The hook, second half: wg.Add(1), and the hook returns.
HookAdd ==
    /\ proc = "running"
    /\ pc = "hook"
    /\ hookpc = "add"
    /\ wg' = wg + 1
    /\ hookpc' = "returned"
    /\ pc' = "exec"
    /\ UNCHANGED <<config, cancelled, i, timer, streams, host, reporter, calls,
                   history, stops, mainpc, child, childStatus, waitErr,
                   clocks, session>>

\* main: err = cmd.Wait() returns once the child has ended.
MainCmdWait ==
    /\ proc = "running"
    /\ mainpc = "cmdWait"
    /\ pc # "new"
    /\ child = "exited"
    /\ child' = "reaped"
    /\ waitErr' = childStatus
    /\ mainpc' = "wgWait"
    /\ UNCHANGED <<config, cancelled, loop, streams, host, reporter, calls,
                   history, stops, childStatus, wg, hookpc,
                   clocks, session>>

\* main: wg.Wait() returns when the counter is zero.
MainWgWait ==
    /\ proc = "running"
    /\ mainpc = "wgWait"
    /\ wg = 0
    /\ mainpc' = "exitCheck"
    /\ UNCHANGED <<config, cancelled, loop, streams, host, reporter, calls,
                   history, stops, child, childStatus, waitErr, wg, hookpc,
                   clocks, session>>

\* The status the process ends with after os.Exit(code).
ExitStatusOf(code) == code % 256

\* main: os.Exit(exiterr.ExitCode()) when err is not nil, else main returns.
MainExit ==
    /\ proc = "running"
    /\ mainpc = "exitCheck"
    /\ mainpc' = "done"
    /\ proc' = "exited"
    /\ exitStatus' = IF waitErr = <<0>> THEN <<0>>
                     ELSE <<ExitStatusOf(Head(waitErr))>>
    /\ UNCHANGED <<config, cancelled, loop, streams, reporter, calls, history,
                   stops, child, childStatus, waitErr, wg, hookpc,
                   clocks, session>>

LauncherNext ==
    \/ Start
    \/ SelectEvent
    \/ SelectError
    \/ SleepSwallow
    \/ SleepTimer
    \/ TryExec
    \/ FileChange
    \/ WatchError
    \/ Tick
    \/ ChildExit
    \/ ChildKilled
    \/ HookKill
    \/ HookAdd
    \/ MainCmdWait
    \/ MainWgWait
    \/ MainExit

LauncherSpec == LauncherInit /\ [][LauncherNext]_vars

\* ------------------------------------------------------------- claims

\* The maxAttempts the options opts ask for: the last one, at least 1.
Requested(os) == IF os[Len(os)] < 1 THEN 1 ELSE os[Len(os)]

\* C1: in a reload cycle the hook is invoked once, before the first
\* syscall.Exec call, and not again on a retry: there are never more hook
\* invocations than cycles, every cycle that has made an Exec call has had its
\* hook, and while the hook runs no Exec call has been made.
C1_HookOncePerCycle ==
    /\ hookCalls <= cycles
    /\ (execCalls > 0 => hookCalls = cycles)
    /\ (pc = "hook" => i = 0 /\ execCalls = 0)

\* C1 witness: a cycle that retried (at least two Exec calls) with one hook call.
C1_Witness == execCalls >= 2 /\ hookCalls = 1 /\ lastOutcome = "ETXTBSY"

\* C2: with maxAttempts = k and Exec always failing with ETXTBSY, exactly k
\* Exec calls are made, then "max attempts reached" is reported once and the
\* process exits with status 1; there is never a (k+1)th call.
C2_ExhaustedAfterMaxAttempts ==
    /\ execCalls <= maxAttempts
    /\ (lastOutcome = "ETXTBSY" /\ execCalls = maxAttempts =>
           /\ proc = "exited"
           /\ exitStatus = <<1>>
           /\ errorLog = 1
           /\ lastError = "max attempts reached")
    /\ (lastError = "max attempts reached" =>
           execCalls = maxAttempts /\ i = maxAttempts)

\* C2 witness: maxAttempts = 2, two ETXTBSY results, one hook call, fatal exit.
C2_Witness ==
    /\ maxAttempts = 2
    /\ execCalls = 2
    /\ hookCalls = 1
    /\ lastError = "max attempts reached"
    /\ proc = "exited"

\* C3: when Exec fails with ETXTBSY on attempts 1..j-1 and succeeds on attempt
\* j <= k, exactly j calls are made, the hook ran once, one Info log was
\* written, no error was reported and the process did not exit; a transient
\* failure with attempts left reports nothing either.
C3_SuccessOnAttemptJ ==
    /\ (lastOutcome = "ok" =>
           /\ proc = "replaced"
           /\ execCalls = i + 1
           /\ execCalls <= maxAttempts
           /\ hookCalls = 1
           /\ infoLog = 1
           /\ errorLog = 0
           /\ exitStatus = <<>>)
    /\ (lastOutcome = "ETXTBSY" /\ execCalls < maxAttempts =>
           proc = "running" /\ errorLog = 0 /\ execCalls = i)

\* C3 witness: maxAttempts = 3, two ETXTBSY results, then success.
C3_Witness ==
    /\ maxAttempts = 3
    /\ lastOutcome = "ok"
    /\ execCalls = 3
    /\ proc = "replaced"

\* C4: however many notifications arrive in a burst, one reload cycle runs:
\* one Info log, at most one hook call and one attempt sequence, and every
\* notification taken from the stream either started that cycle or was
\* dropped inside it.
C4_BurstOneCycle ==
    /\ cycles <= 1
    /\ infoLog = cycles
    /\ hookCalls <= 1
    /\ cycles + swallowed + events = changes
    /\ (swallowed > 0 => cycles = 1)

\* C4 witness: a burst of three notifications, all taken before the first
\* timer was acted on, and one cycle that has reached its Exec call.
C4_Witness ==
    /\ changes = 3
    /\ swallowed = 2
    /\ events = 0
    /\ i = 0
    /\ pc = "exec"
    /\ cycles = 1
    /\ hookCalls = 1

\* C5 (as claimed): when Stop is called before any notification has arrived,
\* no reload cycle runs afterwards: no Info log, no hook call, no Exec call.
C5_StopPreventsReload ==
    stoppedEarly => cycles = 0 /\ hookCalls = 0 /\ execCalls = 0

\* C6: Stop is idempotent: every call leaves the context cancelled, a call on
\* a cancelled context changes nothing else, no call ends the process or
\* reports an error, and Stop can always be called while the process runs.
C6_StopIdempotent ==
    /\ [][stopCalls' = stopCalls + 1 =>
             /\ cancelled'
             /\ proc' = "running"
             /\ errorLog' = errorLog
             /\ (cancelled => UNCHANGED <<config, cancelled, loop, streams,
                                          host, reporter, calls, history,
                                          launcher>>)]_vars
    /\ [](proc = "running" /\ stopCalls < MaxStops => ENABLED Stop)

\* C6 witness: Stop called twice, the second time after the loop had returned.
C6_Witness ==
    /\ stopCalls = 2
    /\ stopAfterExit
    /\ pc = "cancelled"
    /\ proc = "running"

\* C7: an Exec error other than ETXTBSY is reported once and ends the process
\* at once, with attempts left or not: it is the last Exec call.
C7_OtherExecErrorFatal ==
    lastOutcome \notin {"none", "ok", "ETXTBSY"} =>
        /\ proc = "exited"
        /\ exitStatus = <<1>>
        /\ errorLog = 1
        /\ lastError = lastOutcome
        /\ execCalls = i + 1

\* C7 witness: EACCES on the first of several attempts.
C7_Witness ==
    /\ lastOutcome = "EACCES"
    /\ execCalls = 1
    /\ maxAttempts > 1
    /\ proc = "exited"

\* C8: a receive from watcher.Errors is reported once and ends the process;
\* the loop does not go on, and neither the hook nor Exec is called for it.
C8_WatchErrorFatal ==
    errsReceived > 0 =>
        /\ proc = "exited"
        /\ exitStatus = <<1>>
        /\ errorLog = 1
        /\ lastError \in ErrorStreamValues
        /\ errsReceived = 1
        /\ hookCalls = 0
        /\ execCalls = 0
        /\ infoLog = 0

\* C8 witness: a watch error received while a notification was waiting too.
C8_Witness == errsReceived = 1 /\ events > 0 /\ proc = "exited"

\* C9: a maxAttempts option of 0 or less acts as 1, and of several options
\* the last decides: the Exec calls of a cycle never exceed the bound the last
\* option asks for, and attempts are exhausted exactly at that bound.
C9_MaxAttemptsNormalized ==
    opts # <<>> =>
        /\ execCalls <= Requested(opts)
        /\ (lastError = "max attempts reached" =>
               execCalls = Requested(opts))
        /\ (lastOutcome = "ETXTBSY" /\ execCalls < Requested(opts) =>
               proc = "running")

\* C9 witness: options 3 then 0: one Exec call, then attempts are exhausted.
C9_Witness ==
    /\ opts = <<3, 0>>
    /\ execCalls = 1
    /\ lastError = "max attempts reached"

\* C10 (as claimed): in the launcher, main never exits once the hook has
\* killed the child, and when the child ended by itself main exits with the
\* child's exit code.
C10_LauncherAbsorbsReloadExit ==
    mainpc = "done" =>
        /\ childStatus # <<SignalledCode>>
        /\ exitStatus = childStatus

\* C11 (as claimed): a notification received during the wait restarts the
\* window, so the hook is called only when a full quiet window has passed
\* since the last notification the loop received.
C11_WindowRestarts ==
    /\ [][swallowed' # swallowed /\ timer > 0 => timer' = SleepTicks]_vars
    /\ [](pc = "hook" => quiet = SleepTicks)

\* C11 (amended): a notification received during the wait is dropped and
\* leaves the timer as it is: the hook is called once the full delay has
\* passed since the notification that started the cycle, however recently
\* another one was received.
C11_FixedDelayBeforeHook ==
    /\ [](pc = "hook" => slept = SleepTicks /\ i = 0)
    /\ [][swallowed' # swallowed => timer' = timer /\ slept' = slept]_vars

\* C11 witness: the hook is called less than a window after a notification
\* was swallowed.
C11_Witness == pc = "hook" /\ swallowed >= 1 /\ quiet < SleepTicks

\* C12 (as claimed): when the context is cancelled after a notification was
\* received and before the hook was called, the loop returns without calling
\* the hook or syscall.Exec.
C12_StopInWindowPreventsHook ==
    stopPhase = "window" => hookCalls = 0 /\ execCalls = 0

\* C13: a cancellation that comes after the hook was called does not end the
\* cycle: the loop never returns for it, a hook or Exec call in flight can
\* always complete, and the cycle ends only in replacement or in a fatal exit.
C13_StopDoesNotInterruptReload ==
    stopPhase = "reloading" =>
        /\ pc \in {"hook", "sleep", "exec"}
        /\ (proc = "running" /\ pc = "hook" => ENABLED HookReturn)
        /\ (proc = "running" /\ pc = "exec" => ENABLED TryExec)
        /\ (proc = "exited" =>
               /\ errorLog = 1
               /\ lastError \in {"max attempts reached", lastOutcome})
        /\ (proc # "running" => execCalls >= 1)

\* C13 witness: Stop came after the hook, and the cycle went on to replace the
\* process on a later attempt.
C13_Witness ==
    /\ stopPhase = "reloading"
    /\ proc = "replaced"
    /\ execCalls >= 2

\* C14: a notification received inside sleep is dropped: the step changes
\* neither the attempt counter, the cycle count, the hook, Exec and log
\* counts nor the loop's position, and a cycle that dropped notifications
\* makes the same Exec calls as one that did not.
C14_SwallowedChangeNothing ==
    /\ [][swallowed' # swallowed =>
             /\ events' = events - 1
             /\ UNCHANGED <<pc, i, cycles, hookCalls, execCalls, infoLog,
                            errorLog>>]_vars
    /\ [](swallowed > 0 /\ proc # "running" =>
             /\ cycles = 1
             /\ hookCalls = 1
             /\ infoLog = 1
             /\ execCalls = IF lastOutcome = "ETXTBSY" THEN maxAttempts
                            ELSE i + 1)

\* C14 witness: two attempts, notifications dropped on the way, attempts
\* exhausted after exactly two Exec calls.
C14_Witness ==
    /\ swallowed >= 2
    /\ maxAttempts = 2
    /\ execCalls = 2
    /\ lastError = "max attempts reached"

\* C15: every Exec call comes after its own completed sleep: when the hook or
\* Exec is about to run, one more sleep than failed calls has returned and
\* its full delay has passed; while sleeping, as many sleeps as calls have.
C15_DelayBeforeEveryExec ==
    /\ execCalls <= sleeps
    /\ (proc = "running" /\ pc \in {"hook", "exec"} =>
           /\ sleeps = i + 1
           /\ execCalls = i
           /\ timer = 0
           /\ slept = SleepTicks)
    /\ (proc = "running" /\ pc = "sleep" => sleeps = i /\ execCalls = i)

\* C15 witness: the third Exec call is about to be made after three sleeps.
C15_Witness ==
    /\ proc = "running"
    /\ pc = "exec"
    /\ i = 2
    /\ sleeps = 3

\* C16 (as claimed): the Info log of a cycle is written only once the quiet
\* window has passed with no further notification, not when the first
\* notification is received.
C16_LogAfterQuietWindow == infoLog > 0 => quiet = SleepTicks /\ sleeps > 0

\* C16 (amended): the Info log is written exactly once per cycle, in the step
\* that receives the cycle's first notification, before the delay begins.
C16_LogOnFirstNotification ==
    /\ [](infoLog = cycles)
    /\ [][infoLog' # infoLog =>
             /\ pc = "select"
             /\ infoLog' = infoLog + 1
             /\ cycles' = cycles + 1
             /\ events' = events - 1
             /\ sleeps' = 0
             /\ hookCalls' = 0
             /\ pc' = "sleep"
             /\ slept' = 0]_vars

\* C16 witness: the log is written and no time of the delay has passed.
C16_Witness ==
    /\ infoLog = 1
    /\ pc = "sleep"
    /\ i = 0
    /\ slept = 0
    /\ timer = SleepTicks
    /\ sleeps = 0

\* C17: every fatal condition makes one logger.Error call and ends the
\* process with status 1: there is an Error call exactly when the process has
\* exited, never a second one, and nothing changes after the process ended.
C17_FatalReportsOnceAndExits ==
    /\ [](/\ errorLog <= 1
          /\ (errorLog = 1 <=> proc = "exited")
          /\ (proc = "exited" => exitStatus = <<1>> /\ lastError # NoError))
    /\ [][proc # "running" => UNCHANGED vars]_vars

\* C17 witness: attempts exhausted while notifications and a watch error are
\* still waiting; one Error call, process exited.
C17_Witness ==
    /\ proc = "exited"
    /\ errorLog = 1
    /\ lastError = "max attempts reached"
    /\ events > 0
    /\ errors > 0

\* C18 (as claimed): once the watch loop has returned on cancellation the
\* watcher is released.
C18_CancelReleasesWatch == pc = "cancelled" => ~watching

\* C19 (as claimed): when every notification comes more than a quiet window
\* after the one before, each one starts its own reload cycle: once all of
\* them are received there are as many cycles as notifications.
C19_EachSeparatedNotificationCycles ==
    separated /\ ~cancelled /\ events = 0 /\ errsReceived = 0 =>
        cycles = changes

\* C19 (amended): of notifications that come more than a quiet window apart,
\* only the first starts a cycle in this supervisor; each later one is
\* dropped inside sleep or is never received.
C19_OnlyFirstSeparatedCycles ==
    separated /\ changes >= 2 =>
        /\ cycles <= 1
        /\ swallowed + events >= changes - 1
        /\ (cycles = 1 => pc \notin {"select", "cancelled"})

\* C19 witness: three notifications, each more than a window after the one
\* before, one cycle, the later two dropped.
C19_Witness ==
    /\ separated
    /\ changes = 3
    /\ cycles = 1
    /\ swallowed = 2
    /\ events = 0

\* C20: a cycle that has started never goes back to waiting for a
\* notification, makes at most maxAttempts Exec calls, and (the loop being
\* scheduled and the hook returning) ends in replacement or in a fatal exit.
C20_CycleTerminates ==
    /\ [](cycles > 0 => pc \in {"sleep", "hook", "exec"})
    /\ [](execCalls <= maxAttempts)
    /\ [](cycles > 0 /\ proc = "exited" => errorLog = 1 /\ execCalls >= 1)
    /\ (cycles > 0 ~> proc # "running")

\* C20 witness: the default ten attempts all used, and the process ended.
C20_Witness ==
    /\ maxAttempts = defaultMaxAttempts
    /\ cycles = 1
    /\ execCalls = defaultMaxAttempts
    /\ proc = "exited"

\* C21: once the context is cancelled with the watch loop in its outer select
\* and no cycle started, the loop (being scheduled) leaves the select for
\* good: it returns or the process ends; a started cycle never comes back to
\* the select, and after the loop has returned it takes no further step:
\* position, counters, logs and calls stay as they are and nothing more is
\* received from the watcher.
C21_CancelledLeavesIdle ==
    /\ (stopPhase = "idle" /\ pc = "select" /\ proc = "running"
            ~> pc = "cancelled" \/ proc # "running")
    /\ [][pc # "select" /\ pc # "new" => pc' # "select"]_vars
    /\ [](pc = "cancelled" => cancelled /\ cycles = 0 /\ proc = "running")
    /\ [][pc = "cancelled" =>
             /\ UNCHANGED <<loop, host, reporter, calls, cycles, swallowed,
                            errsReceived>>
             /\ events' >= events
             /\ errors' >= errors]_vars

\* C21 witness: Stop came with the loop in its select and a notification
\* waiting; the loop has returned and the notification is still unreceived.
C21_Witness ==
    /\ stopPhase = "idle"
    /\ ~stoppedEarly
    /\ pc = "cancelled"
    /\ events > 0

=============================================================================
